---------------------------- MODULE Spec2Model ----------------------------
(***************************************************************************)
(* Model of the three scorecard evaluation scripts of src/pinfen:          *)
(*   lift.py  (Lift / cumulative Lift),                                    *)
(*   ks.py    (Kolmogorov-Smirnov separation),                             *)
(*   auc.py   (ROC / AUC over the expanded per-sample set).                *)
(*                                                                         *)
(* Each script is a straight-line program over a literal table.  The       *)
(* state is the script's global namespace (variable `globals`, keyed by    *)
(* the Python names), its position `pc`, the literal table `data`, the     *)
(* exception that ended it (`err`) and what it printed (`out`).            *)
(*                                                                         *)
(* Column names are transliterated:                                        *)
(*   score_range   = 评分区间      midpoint      = 区间中点                *)
(*   population    = 区间人数      pd_pct        = 违约概率(%)             *)
(*   default_count = 违约人数      pd            = 违约概率                *)
(*   bin_bad_rate  = 区间坏账率    lift          = Lift提升度              *)
(*   good_count    = 好客户数      non_default_count = 非违约人数          *)
(*   cum_samples   = 累计样本数    cum_bad       = 累计违约人数            *)
(*   cum_bad_rate  = 累计坏账率    cum_lift      = 累计Lift                *)
(*                                                                         *)
(* float64 values are modelled as exact rationals extended with NaN and    *)
(* +/-inf (rounding error is abstracted away, the IEEE special values are  *)
(* kept because pandas/numpy produce them instead of raising).             *)
(***************************************************************************)
EXTENDS Integers, Sequences, FiniteSets, TLC

VARIABLES script, pc, data, globals, err, out

vars == <<script, pc, data, globals, err, out>>

-----------------------------------------------------------------------------
(* Bounds of the model *)

MaxBins == 3

MaxCount == 2

MaxPermCount == 1

MaxSamples == 3

-----------------------------------------------------------------------------
(* float64 as extended rationals: <<n, d>> with d > 0 and gcd(n, d) = 1 is *)
(* the finite value n/d, <<1, 0>> is +inf, <<-1, 0>> is -inf, <<0, 0>> NaN *)

NaN == <<0, 0>>

PosInf == <<1, 0>>

NegInf == <<-1, 0>>

Abs(i) == IF i < 0 THEN -i ELSE i

Sgn(i) == IF i < 0 THEN -1 ELSE IF i > 0 THEN 1 ELSE 0

RECURSIVE GCD(_, _)
GCD(a, b) == IF b = 0 THEN a ELSE GCD(b, a % b)

Norm(n, d) ==
    LET g == GCD(Abs(n), Abs(d))
    IN  IF d < 0 THEN <<(-n) \div g, (-d) \div g>> ELSE <<n \div g, d \div g>>

LCM(a, b) == (a \div GCD(a, b)) * b

(* a/b < c/d for b, d > 0, by integer parts and then the reciprocals of the *)
(* fractional parts, so that no product leaves the integer range            *)
RECURSIVE RatLt(_, _, _, _)
RatLt(a, b, c, d) ==
    IF a \div b # c \div d THEN a \div b < c \div d
    ELSE IF c % d = 0 THEN FALSE
    ELSE IF a % b = 0 THEN TRUE
    ELSE RatLt(d, c % d, b, a % b)

F(i) == <<i, 1>>

IsNaN(x) == x = NaN

IsInf(x) == x[2] = 0 /\ x[1] # 0

(* IEEE-754 division as numpy/pandas perform it: x/0 is +/-inf, 0/0 is NaN, *)
(* nothing is raised.                                                       *)
FDiv(a, b) ==
    IF IsNaN(a) \/ IsNaN(b) THEN NaN
    ELSE IF IsInf(a) THEN
        IF IsInf(b) THEN NaN
        ELSE <<a[1] * (IF b[1] < 0 THEN -1 ELSE 1), 0>>
    ELSE IF IsInf(b) THEN F(0)
    ELSE IF b[1] = 0 THEN
        IF a[1] = 0 THEN NaN ELSE <<Sgn(a[1]), 0>>
    ELSE Norm(a[1] * b[2], a[2] * b[1])

FAdd(a, b) ==
    IF IsNaN(a) \/ IsNaN(b) THEN NaN
    ELSE IF IsInf(a) THEN (IF IsInf(b) /\ b # a THEN NaN ELSE a)
    ELSE IF IsInf(b) THEN b
    ELSE LET l == LCM(a[2], b[2])
         IN  Norm(a[1] * (l \div a[2]) + b[1] * (l \div b[2]), l)

FNeg(a) == <<-a[1], a[2]>>

FSub(a, b) == FAdd(a, FNeg(b))

FMul(a, b) ==
    IF IsNaN(a) \/ IsNaN(b) THEN NaN
    ELSE IF IsInf(a) \/ IsInf(b) THEN
        (IF a[1] = 0 \/ b[1] = 0 THEN NaN ELSE <<Sgn(a[1]) * Sgn(b[1]), 0>>)
    ELSE Norm(a[1] * b[1], a[2] * b[2])

FAbs(a) == <<Abs(a[1]), a[2]>>

(* Comparisons are false as soon as one side is NaN. *)
FLt(a, b) ==
    /\ ~IsNaN(a)
    /\ ~IsNaN(b)
    /\ a # b
    /\ IF IsInf(a) THEN a = NegInf
       ELSE IF IsInf(b) THEN b = PosInf
       ELSE RatLt(a[1], a[2], b[1], b[2])

FEq(a, b) == ~IsNaN(a) /\ ~IsNaN(b) /\ a = b

FLe(a, b) == FLt(a, b) \/ FEq(a, b)

-----------------------------------------------------------------------------
(* Sequences and columns *)

RECURSIVE SumTo(_, _)
SumTo(s, k) == IF k = 0 THEN 0 ELSE SumTo(s, k - 1) + s[k]

(* Series.sum() of an integer column *)
Sum(s) == SumTo(s, Len(s))

(* Series.cumsum() of an integer column *)
CumSum(s) == [k \in 1..Len(s) |-> SumTo(s, k)]

RECURSIVE FSumTo(_, _)
FSumTo(s, k) ==
    IF k = 0 THEN F(0)
    ELSE IF IsNaN(s[k]) THEN FSumTo(s, k - 1)
    ELSE FAdd(FSumTo(s, k - 1), s[k])

(* Mutation: the running sum is forgotten, every row keeps its own value *)
FCumSumNone(s) == s

(* Series.cumsum() of a float column: skipna=True, a NaN entry stays NaN *)
(* and does not enter the running sum.                                   *)
FCumSum(s) == [k \in 1..Len(s) |-> IF IsNaN(s[k]) THEN NaN ELSE FSumTo(s, k)]

(* The elements of a set of integers in ascending order *)
RECURSIVE SetToSeq(_)
SetToSeq(S) ==
    IF S = {} THEN <<>>
    ELSE LET m == CHOOSE x \in S : \A y \in S : x <= y
         IN  <<m>> \o SetToSeq(S \ {m})

(* Fancy indexing: the entries of s at the positions idxs *)
Pick(s, idxs) == [k \in 1..Len(idxs) |-> s[idxs[k]]]

(* A DataFrame is a function from column names to equally long sequences. *)
NRows(df) == Len(df["midpoint"])

WithColumn(df, name, col) == (name :> col) @@ df

WithGlobal(g, name, val) == (name :> val) @@ g

-----------------------------------------------------------------------------
(* The literal tables *)

LiftFields == {"score_range", "midpoint", "population", "pd_pct", "default_count"}

KSFields == {"score_range", "midpoint", "population", "default_count"}

AUCFields == LiftFields

(* The score range printed for a midpoint: 325 is the bin 300-350. *)
RangeOf(m) == <<m - 25, m + 25>>

EmbeddedMidpoints ==
    <<325, 375, 425, 475, 525, 575, 625, 675, 725, 775, 825, 875, 925, 975>>

EmbeddedPopulation ==
    <<49, 165, 441, 919, 1499, 1915, 1915, 1499, 919, 441, 165, 49, 11, 2>>

EmbeddedDefaults ==
    <<49, 163, 412, 662, 470, 144, 27, 4, 0, 0, 0, 0, 0, 0>>

(* 违约概率(%) in hundredths of a percent: 99.78 is 9978/100 *)
EmbeddedPdPct ==
    [i \in 1..14 |->
        Norm(<<9978, 9878, 9349, 7190, 3135, 753, 143, 26, 5, 1, 0, 0, 0, 0>>[i], 100)]

MkData(fields, mid, pop, pct, def) ==
    [f \in fields |->
        CASE f = "score_range" -> [i \in 1..Len(mid) |-> RangeOf(mid[i])]
          [] f = "midpoint" -> mid
          [] f = "population" -> pop
          [] f = "pd_pct" -> pct
          [] f = "default_count" -> def]

EmbeddedData(fields) ==
    MkData(fields, EmbeddedMidpoints, EmbeddedPopulation, EmbeddedPdPct, EmbeddedDefaults)


(* Midpoints of a generated table of n bins, as in the literal: 325, 375, ... *)
Mids(n) == [i \in 1..n |-> 325 + 50 * (i - 1)]

(* 违约概率(%) levels of the generated tables *)
PctLevels == {F(0), F(50), F(100)}

(* [1..n -> S] as a set of sequences *)
Seqs(n, S) == [1..n -> S]

(* Tables in score order whose counts are not validated: default_count may *)
(* exceed population (no script checks it).                                *)
UncheckedTable(fields, d) ==
    \E n \in 1..MaxBins :
        \E pop \in Seqs(n, 0..MaxCount), def \in Seqs(n, 0..MaxCount) :
            d = MkData(fields, Mids(n), pop, [i \in 1..n |-> F(50)], def)

(* Counts that satisfy the data model: 0 <= default_count <= population. *)
ValidPairs(maxpop) == {c \in (0..maxpop) \X (0..maxpop) : c[2] <= c[1]}

ValidTable(fields, d) ==
    \E n \in 1..MaxBins :
        \E c \in Seqs(n, ValidPairs(MaxCount)) :
            d = MkData(fields, Mids(n), [i \in 1..n |-> c[i][1]],
                       [i \in 1..n |-> F(50)], [i \in 1..n |-> c[i][2]])

(* Valid tables whose rows are given in any order of their midpoints. *)
PermutedTable(fields, d) ==
    \E n \in 1..MaxBins :
        \E c \in Seqs(n, ValidPairs(MaxPermCount)), p \in Permutations(1..n) :
            d = MkData(fields, [i \in 1..n |-> Mids(n)[p[i]]], [i \in 1..n |-> c[i][1]],
                       [i \in 1..n |-> F(50)], [i \in 1..n |-> c[i][2]])

(* Valid tables of at most MaxSamples samples, every bin with its own *)
(* 违约概率(%)                                                         *)
SampleTable(fields, d) ==
    \E n \in 1..MaxBins :
        \E c \in Seqs(n, ValidPairs(MaxSamples)) :
            /\ Sum([i \in 1..n |-> c[i][1]]) <= MaxSamples
            /\ \E pct \in Seqs(n, PctLevels) :
                  d = MkData(fields, Mids(n), [i \in 1..n |-> c[i][1]], pct,
                             [i \in 1..n |-> c[i][2]])

(* Literal tables whose parallel fields do not all have the same length. *)
MismatchedTable(fields, d) ==
    \E lens \in [fields -> 0..MaxBins] :
        /\ \E f, h \in fields : lens[f] # lens[h]
        /\ d = [f \in fields |->
                 CASE f = "score_range" -> [i \in 1..lens[f] |-> RangeOf(Mids(lens[f])[i])]
                   [] f = "midpoint" -> Mids(lens[f])
                   [] f = "population" -> [i \in 1..lens[f] |-> 1]
                   [] f = "pd_pct" -> [i \in 1..lens[f] |-> F(50)]
                   [] f = "default_count" -> [i \in 1..lens[f] |-> 0]]

-----------------------------------------------------------------------------
(* Exceptions *)

NoErr == [type |-> "none"]

(* raise ValueError(f"字段长度不一致！{field_lengths}") *)
LengthError(field_lengths) == [type |-> "ValueError", lengths |-> field_lengths]

(* pandas' own ValueError of DataFrame(dict): the message is a fixed text *)
FrameError == [type |-> "ValueError", text |-> "All arrays must be of the same length"]

FieldLengths(d) == [k \in DOMAIN d |-> Len(d[k])]

(* Mutation: only the midpoints and the populations are compared *)
SameLengthTwoFields(d) == Len(d["midpoint"]) = Len(d["population"])

(* line 23: len(set(field_lengths.values())) == 1 *)
SameLength(d) == Cardinality({Len(d[k]) : k \in DOMAIN d}) = 1

-----------------------------------------------------------------------------
(* lift.py *)

(* pd.to_numeric(..., errors='coerce'): an int stays as it is, what does *)
(* not parse becomes NaN (the literal columns hold ints only).           *)
ToNumeric(col) == [i \in 1..Len(col) |-> IF col[i] \in Int THEN col[i] ELSE NaN]

(* Column / column and column / scalar, element-wise float division *)
DivCols(a, b) == [i \in 1..Len(a) |-> FDiv(a[i], b[i])]

DivScalar(a, x) == [i \in 1..Len(a) |-> FDiv(a[i], x)]

AsFloat(col) == [i \in 1..Len(col) |-> F(col[i])]

(* Mutation: the bad count over the good count (odds) instead of over all *)
TotalBadRateOdds(total_bad_count, total_samples) ==
    FDiv(F(total_bad_count), F(total_samples - total_bad_count))

(* line 38: total_bad_rate = total_bad_count / total_samples *)
TotalBadRate(total_bad_count, total_samples) ==
    FDiv(F(total_bad_count), F(total_samples))

(* lines 31-40: preprocessing and the per-bin metrics *)
LiftMetrics(g) ==
    LET df0 == g["df"]
        df1 == WithColumn(df0, "population", ToNumeric(df0["population"]))
        df2 == WithColumn(df1, "default_count", ToNumeric(df1["default_count"]))
        df3 == WithColumn(df2, "pd", DivScalar(df2["pd_pct"], F(100)))
        total_samples == Sum(df3["population"])
        total_bad_count == Sum(df3["default_count"])
        total_bad_rate == TotalBadRate(total_bad_count, total_samples)
        df4 == WithColumn(df3, "bin_bad_rate",
                          DivCols(AsFloat(df3["default_count"]), AsFloat(df3["population"])))
        df5 == WithColumn(df4, "lift", DivScalar(df4["bin_bad_rate"], total_bad_rate))
    IN  ("total_samples" :> total_samples) @@ ("total_bad_count" :> total_bad_count)
            @@ ("total_bad_rate" :> total_bad_rate) @@ ("df" :> df5) @@ g

(* Mutation: the fill is forgotten *)
FillNaNone(df) == df

FloatColumns == {"pd_pct", "pd", "bin_bad_rate", "lift"}

(* line 43: df.fillna(0) replaces NaN, and only NaN, by 0 *)
FillNa(df) ==
    [c \in DOMAIN df |->
        IF c \in FloatColumns
        THEN [i \in 1..Len(df[c]) |-> IF IsNaN(df[c][i]) THEN F(0) ELSE df[c][i]]
        ELSE df[c]]

(* Row indices in ascending order of key (selection of the least remaining) *)
RECURSIVE SortOrder(_, _)
SortOrder(key, rows) ==
    IF rows = {} THEN <<>>
    ELSE LET least == CHOOSE i \in rows :
                        \A j \in rows : key[i] < key[j] \/ (key[i] = key[j] /\ i <= j)
         IN  <<least>> \o SortOrder(key, rows \ {least})

(* Mutation: the rows are left in the order given *)
SortValuesNone(df, by) == df

(* line 138: df.sort_values('区间中点').reset_index(drop=True) *)
SortValues(df, by) ==
    LET order == SortOrder(df[by], 1..Len(df[by]))
    IN  [c \in DOMAIN df |-> [k \in 1..Len(order) |-> df[c][order[k]]]]

(* lines 138-143: the cumulative statistics over the sorted bins *)
CumulativeLift(df, total_bad_rate) ==
    LET s0 == SortValues(df, "midpoint")
        s1 == WithColumn(s0, "cum_samples", CumSum(s0["population"]))
        s2 == WithColumn(s1, "cum_bad", CumSum(s1["default_count"]))
        s3 == WithColumn(s2, "cum_bad_rate",
                         DivCols(AsFloat(s2["cum_bad"]), AsFloat(s2["cum_samples"])))
    IN  WithColumn(s3, "cum_lift", DivScalar(s3["cum_bad_rate"], total_bad_rate))

(* Series.max() of a float column without NaN *)
FMax(col) == CHOOSE x \in {col[i] : i \in 1..Len(col)} :
                \A i \in 1..Len(col) : FLe(col[i], x)

(* Series.max() of a float column: NaN when the column is empty *)
FMaxOrNaN(col) == IF Len(col) = 0 THEN NaN ELSE FMax(col)

(* df[df['区间中点'] > 650]['违约概率(%)'] *)
LowRiskPct(df) ==
    Pick(df["pd_pct"], SetToSeq({i \in 1..NRows(df) : df["midpoint"][i] > 650}))

(* lines 20-27 *)
LiftValidate ==
    /\ script = "lift"
    /\ pc = "start"
    /\ out' = Append(out, [field_lengths |-> FieldLengths(data)])
    /\ IF ~SameLength(data)
       THEN /\ err' = LengthError(FieldLengths(data))
            /\ pc' = "error"
            /\ globals' = WithGlobal(globals, "field_lengths", FieldLengths(data))
       ELSE /\ err' = err
            /\ pc' = "loaded"
            /\ globals' = ("df" :> data) @@ ("field_lengths" :> FieldLengths(data)) @@ globals
    /\ UNCHANGED <<script, data>>

LiftPreprocess ==
    /\ script = "lift"
    /\ pc = "loaded"
    /\ globals' = LiftMetrics(globals)
    /\ pc' = "metrics"
    /\ UNCHANGED <<script, data, err, out>>

LiftFillNa ==
    /\ script = "lift"
    /\ pc = "metrics"
    /\ globals' = WithGlobal(globals, "df", FillNa(globals["df"]))
    /\ pc' = "filled"
    /\ UNCHANGED <<script, data, err, out>>

LiftCumulative ==
    /\ script = "lift"
    /\ pc = "filled"
    /\ globals' = WithGlobal(globals, "df_sorted",
                             CumulativeLift(globals["df"], globals["total_bad_rate"]))
    /\ pc' = "cumulated"
    /\ UNCHANGED <<script, data, err, out>>

(* lines 174-179 *)
LiftReport ==
    /\ script = "lift"
    /\ pc = "cumulated"
    /\ out' = Append(out, [total_samples |-> globals["total_samples"],
                           total_bad_count |-> globals["total_bad_count"],
                           total_bad_rate |-> globals["total_bad_rate"],
                           max_lift |-> FMax(globals["df"]["lift"]),
                           high_risk_bins |->
                               Cardinality({i \in 1..NRows(globals["df"]) :
                                               FLt(F(3), globals["df"]["lift"][i])}),
                           low_risk_pct |-> FMaxOrNaN(LowRiskPct(globals["df"]))])
    /\ pc' = "done"
    /\ UNCHANGED <<script, data, globals, err>>

NoGlobals == [n \in {} |-> 0]

InitLift ==
    /\ script = "lift"
    /\ pc = "start"
    /\ \/ UncheckedTable(LiftFields, data)
       \/ PermutedTable(LiftFields, data)
       \/ MismatchedTable(LiftFields, data)
       \/ data = EmbeddedData(LiftFields)
    /\ globals = NoGlobals
    /\ err = NoErr
    /\ out = <<>>

NextLift == LiftValidate \/ LiftPreprocess \/ LiftFillNa \/ LiftCumulative \/ LiftReport

Spec == InitLift /\ [][NextLift]_vars

-----------------------------------------------------------------------------
(* ks.py *)

SubCols(a, b) == [i \in 1..Len(a) |-> a[i] - b[i]]

(* lines 22-31: the cumulative fractions and the separation of every bin *)
KSMetrics(g) ==
    LET df0 == g["df"]
        df1 == WithColumn(df0, "good_count", SubCols(df0["population"], df0["default_count"]))
        total_bad == Sum(df1["default_count"])
        total_good == Sum(df1["good_count"])
        df2 == WithColumn(df1, "BadPct", DivScalar(AsFloat(df1["default_count"]), F(total_bad)))
        df3 == WithColumn(df2, "GoodPct", DivScalar(AsFloat(df2["good_count"]), F(total_good)))
        df4 == WithColumn(df3, "Cum_BadPct", FCumSum(df3["BadPct"]))
        df5 == WithColumn(df4, "Cum_GoodPct", FCumSum(df4["GoodPct"]))
        df6 == WithColumn(df5, "KS",
                          [i \in 1..NRows(df5) |->
                              FAbs(FSub(df5["Cum_BadPct"][i], df5["Cum_GoodPct"][i]))])
    IN  ("total_bad" :> total_bad) @@ ("total_good" :> total_good) @@ ("df" :> df6) @@ g

NotNaRows(col) == {i \in 1..Len(col) : ~IsNaN(col[i])}

(* Mutation: the last row holding the maximum *)
IdxMaxLast(col) ==
    CHOOSE i \in NotNaRows(col) :
        \A j \in NotNaRows(col) :
            /\ FLe(col[j], col[i])
            /\ FEq(col[j], col[i]) => i >= j

(* Series.idxmax(): NaN entries are skipped, the first row holding the *)
(* maximum is returned (rows are numbered from 1 here, from 0 in pandas) *)
IdxMax(col) ==
    CHOOSE i \in NotNaRows(col) :
        \A j \in NotNaRows(col) :
            /\ FLe(col[j], col[i])
            /\ FEq(col[j], col[i]) => i <= j

(* idxmax() of a column that holds only NaN: pandas raises ValueError or, *)
(* in older releases, returns NaN, on which df.loc[...] raises KeyError.  *)
AllNaErrors == {[type |-> "ValueError", text |-> "Encountered all NA values"],
                [type |-> "KeyError", text |-> "nan"]}

(* lines 34-37 *)
KSMaxInfo(g) ==
    LET df == g["df"]
        max_ks_idx == IdxMax(df["KS"])
    IN  ("max_ks_idx" :> max_ks_idx) @@ ("max_ks_value" :> df["KS"][max_ks_idx])
            @@ ("max_ks_score" :> df["midpoint"][max_ks_idx])
            @@ ("max_ks_interval" :> df["score_range"][max_ks_idx]) @@ g

(* line 19: pd.DataFrame(scorecard_data), no length check of the script's own *)
KSLoad ==
    /\ script = "ks"
    /\ pc = "start"
    /\ IF ~SameLength(data)
       THEN /\ err' = FrameError
            /\ pc' = "error"
            /\ globals' = globals
       ELSE /\ err' = err
            /\ pc' = "loaded"
            /\ globals' = WithGlobal(globals, "df", data)
    /\ UNCHANGED <<script, data, out>>

KSCompute ==
    /\ script = "ks"
    /\ pc = "loaded"
    /\ globals' = KSMetrics(globals)
    /\ pc' = "metrics"
    /\ UNCHANGED <<script, data, err, out>>

KSFindMax ==
    /\ script = "ks"
    /\ pc = "metrics"
    /\ IF NotNaRows(globals["df"]["KS"]) = {}
       THEN /\ err' \in AllNaErrors
            /\ pc' = "error"
            /\ UNCHANGED <<globals, out>>
       ELSE /\ globals' = KSMaxInfo(globals)
            /\ out' = Append(out, [max_ks_value |-> globals'["max_ks_value"],
                                   max_ks_interval |-> globals'["max_ks_interval"],
                                   max_ks_score |-> globals'["max_ks_score"]])
            /\ pc' = "found"
            /\ err' = err
    /\ UNCHANGED <<script, data>>

(* lines 95-100: the table of cumulative fractions and separations *)
KSReport ==
    /\ script = "ks"
    /\ pc = "found"
    /\ out' = Append(out, [c \in {"score_range", "midpoint", "Cum_BadPct", "Cum_GoodPct", "KS"} |->
                              globals["df"][c]])
    /\ pc' = "done"
    /\ UNCHANGED <<script, data, globals, err>>

InitKS ==
    /\ script = "ks"
    /\ pc = "start"
    /\ \/ ValidTable(KSFields, data)
       \/ MismatchedTable(KSFields, data)
       \/ data = EmbeddedData(KSFields)
    /\ globals = NoGlobals
    /\ err = NoErr
    /\ out = <<>>

NextKS == KSLoad \/ KSCompute \/ KSFindMax \/ KSReport

SpecKS == InitKS /\ [][NextKS]_vars

-----------------------------------------------------------------------------
(* auc.py *)

(* [x] * k: the empty list when k <= 0 *)
Repeat(x, k) == [i \in 1..k |-> x]

(* Mutation: the non-defaulted samples are counted by the bin's population *)
ExpandRowPopulation(g, r) ==
    LET df == g["scorecard_data"]
        bad == df["default_count"][r]
        good == df["population"][r]
        prob == df["pd"][r]
    IN  ("y_true" :> g["y_true"] \o Repeat(1, bad) \o Repeat(0, good))
            @@ ("y_pred_prob" :> g["y_pred_prob"] \o Repeat(prob, bad) \o Repeat(prob, good))
            @@ ("sample_weights" :> g["sample_weights"] \o Repeat(1, bad) \o Repeat(1, good))
            @@ ("idx" :> r - 1) @@ g

(* lines 29-38: what one iteration of the loop appends for row r *)
ExpandRow(g, r) ==
    LET df == g["scorecard_data"]
        bad == df["default_count"][r]
        good == df["non_default_count"][r]
        prob == df["pd"][r]
    IN  ("y_true" :> g["y_true"] \o Repeat(1, bad) \o Repeat(0, good))
            @@ ("y_pred_prob" :> g["y_pred_prob"] \o Repeat(prob, bad) \o Repeat(prob, good))
            @@ ("sample_weights" :> g["sample_weights"] \o Repeat(1, bad) \o Repeat(1, good))
            @@ ("idx" :> r - 1) @@ g

(* Indices of the samples by decreasing score *)
RECURSIVE SortDesc(_, _)
SortDesc(score, rows) ==
    IF rows = {} THEN <<>>
    ELSE LET top == CHOOSE i \in rows :
                        \A j \in rows : FLt(score[j], score[i])
                                           \/ (FEq(score[i], score[j]) /\ i >= j)
         IN  <<top>> \o SortDesc(score, rows \ {top})

(* Mutation: every sample is a threshold, equal scores are not grouped *)
ThresholdIdxsAll(sc) == [k \in 1..Len(sc) |-> k]

(* threshold_idxs: the last sample of every run of equal scores *)
ThresholdIdxs(sc) ==
    SetToSeq({k \in 1..Len(sc) : k = Len(sc) \/ sc[k] # sc[k + 1]})

(* tps and fps at the thresholds, over the samples already sorted:      *)
(* without sample_weight fps is 1 + threshold_idxs - tps (0-based idxs), *)
(* with it, the cumulative sum of (1 - y_true) * weight.                 *)
CurveCounts(y, w, threshold_idxs, weighted) ==
    LET tps == Pick(CumSum([i \in 1..Len(y) |-> y[i] * w[i]]), threshold_idxs)
    IN  [tps |-> tps,
         fps |-> IF weighted
                 THEN Pick(CumSum([i \in 1..Len(y) |-> (1 - y[i]) * w[i]]), threshold_idxs)
                 ELSE [k \in 1..Len(threshold_idxs) |-> threshold_idxs[k] - tps[k]]]

SortedCurve(y_true, y_score, weights, weighted, desc) ==
    CurveCounts(Pick(y_true, desc),
                IF weighted THEN Pick(weights, desc) ELSE [i \in 1..Len(y_true) |-> 1],
                ThresholdIdxs(Pick(y_score, desc)),
                weighted)

(* sklearn _binary_clf_curve: the cumulative true and false positive      *)
(* weights at the last sample of every distinct score, scores descending. *)
BinaryClfCurve(y_true, y_score, weights, weighted) ==
    SortedCurve(y_true, y_score, weights, weighted, SortDesc(y_score, 1..Len(y_true)))

(* np.diff(s, 2) around position k *)
Diff2(s, k) == s[k + 1] - 2 * s[k] + s[k - 1]

(* drop_intermediate: interior points collinear with their neighbours go *)
OptimalIdxs(c) ==
    IF Len(c.fps) > 2
    THEN SetToSeq({k \in 1..Len(c.fps) :
                      \/ k = 1
                      \/ k = Len(c.fps)
                      \/ Diff2(c.fps, k) # 0
                      \/ Diff2(c.tps, k) # 0})
    ELSE [k \in 1..Len(c.fps) |-> k]

(* (0, 0) prepended, both counts divided by their last value *)
Rates(counts) ==
    DivScalar(AsFloat(<<0>> \o counts), F(counts[Len(counts)]))

CurveRates(c, optimal_idxs) ==
    [fpr |-> Rates(Pick(c.fps, optimal_idxs)), tpr |-> Rates(Pick(c.tps, optimal_idxs))]

DropIntermediate(c) == CurveRates(c, OptimalIdxs(c))

(* sklearn roc_curve *)
RocCurve(y_true, y_score, weights, weighted) ==
    DropIntermediate(BinaryClfCurve(y_true, y_score, weights, weighted))

(* sklearn auc(x, y): the trapezoidal rule *)
RECURSIVE Trapezoid(_, _, _)
Trapezoid(x, y, k) ==
    IF k <= 1 THEN F(0)
    ELSE FAdd(Trapezoid(x, y, k - 1),
              FDiv(FMul(FSub(x[k], x[k - 1]), FAdd(y[k], y[k - 1])), F(2)))

Classes(y_true) == {y_true[i] : i \in 1..Len(y_true)}

(* roc_auc_score(y_true, y_score[, sample_weight]) on labels of two classes *)
Auc(roc) == Trapezoid(roc.fpr, roc.tpr, Len(roc.fpr))

RocAucScore(y_true, y_score, weights, weighted) ==
    Auc(RocCurve(y_true, y_score, weights, weighted))

OneClassError ==
    [type |-> "ValueError", text |-> "Only one class present in y_true"]

(* roc_auc_score on labels of one class raises ValueError; later scikit-learn *)
(* releases warn and return NaN instead.  On no sample at all it raises.      *)
AUCOutcomes(y_true, y_score, weights, weighted) ==
    IF Cardinality(Classes(y_true)) = 2
    THEN {RocAucScore(y_true, y_score, weights, weighted)}
    ELSE IF Len(y_true) = 0 THEN {} ELSE {NaN}

(* lines 8-26 *)
AUCLoad ==
    /\ script = "auc"
    /\ pc = "start"
    /\ IF ~SameLength(data)
       THEN /\ err' = FrameError
            /\ pc' = "error"
            /\ globals' = globals
       ELSE /\ err' = err
            /\ pc' = "expand"
            /\ globals' =
                 LET df1 == WithColumn(data, "pd", DivScalar(data["pd_pct"], F(100)))
                     df2 == WithColumn(df1, "non_default_count",
                                       SubCols(df1["population"], df1["default_count"]))
                 IN  ("scorecard_data" :> df2) @@ ("y_true" :> <<>>)
                        @@ ("y_pred_prob" :> <<>>) @@ ("sample_weights" :> <<>>)
    /\ UNCHANGED <<script, data, out>>

(* The row the loop visits next (0-based idx of the last visited row + 2) *)
NextRow(g) == IF "idx" \in DOMAIN g THEN g["idx"] + 2 ELSE 1

AUCExpand ==
    /\ script = "auc"
    /\ pc = "expand"
    /\ NextRow(globals) <= NRows(globals["scorecard_data"])
    /\ globals' = ExpandRow(globals, NextRow(globals))
    /\ UNCHANGED <<script, pc, data, err, out>>

(* lines 41-50 *)
AUCScore ==
    /\ script = "auc"
    /\ pc = "expand"
    /\ NextRow(globals) > NRows(globals["scorecard_data"])
    /\ \/ /\ Cardinality(Classes(globals["y_true"])) # 2
          /\ err' = OneClassError
          /\ pc' = "error"
          /\ globals' = globals
       \/ \E a \in AUCOutcomes(globals["y_true"], globals["y_pred_prob"],
                               globals["sample_weights"], FALSE),
             b \in AUCOutcomes(globals["y_true"], globals["y_pred_prob"],
                               globals["sample_weights"], TRUE) :
             /\ err' = err
             /\ pc' = "scored"
             /\ globals' = ("auc_without_weight" :> a) @@ ("auc_with_weight" :> b) @@ globals
    /\ UNCHANGED <<script, data, out>>

(* lines 53-63 *)
AUCReport ==
    /\ script = "auc"
    /\ pc = "scored"
    /\ out' = Append(out, [auc_without_weight |-> globals["auc_without_weight"],
                           auc_with_weight |-> globals["auc_with_weight"]])
    /\ pc' = "done"
    /\ UNCHANGED <<script, data, globals, err>>

InitAUC ==
    /\ script = "auc"
    /\ pc = "start"
    /\ \/ SampleTable(AUCFields, data)
       \/ MismatchedTable(AUCFields, data)
    /\ globals = NoGlobals
    /\ err = NoErr
    /\ out = <<>>

NextAUC == AUCLoad \/ AUCExpand \/ AUCScore \/ AUCReport

SpecAUC == InitAUC /\ [][NextAUC]_vars

-----------------------------------------------------------------------------
(* Properties of lift.py *)

Bins == 1..Len(data["midpoint"])

(* All parallel fields of the literal table have the same length *)
EqualLengths == \A f, h \in DOMAIN data : Len(data[f]) = Len(data[h])

LiftComputed == script = "lift" /\ pc \in {"metrics", "filled", "cumulated", "done"}

LiftFilled == script = "lift" /\ pc \in {"filled", "cumulated", "done"}

LiftCumulated == script = "lift" /\ pc \in {"cumulated", "done"}

(* C1 as stated: for the embedded table the overall bad rate is         *)
(* 2477/10000 and the lift of the bin with midpoint 325 is 1.0/0.2477.   *)
C1_EmbeddedBadRateAsStated ==
    (LiftComputed /\ data = EmbeddedData(LiftFields)) =>
        /\ globals["total_bad_rate"] = Norm(2477, 10000)
        /\ \A i \in Bins :
              globals["df"]["midpoint"][i] = 325 =>
                  globals["df"]["lift"][i] = FDiv(F(1), Norm(2477, 10000))

(* C1 amended: the embedded table holds 9989 samples and 1931 defaults,  *)
(* so the overall bad rate is 1931/9989 and the lift of the bin with     *)
(* midpoint 325 (bad rate 49/49) is 1.0/(1931/9989) = 9989/1931.         *)
C1_EmbeddedBadRateAndLift ==
    (LiftComputed /\ data = EmbeddedData(LiftFields)) =>
        /\ globals["total_bad_count"] = 1931
        /\ globals["total_samples"] = 9989
        /\ globals["total_bad_rate"] = Norm(1931, 9989)
        /\ \A i \in Bins :
              globals["df"]["midpoint"][i] = 325 =>
                  /\ globals["df"]["bin_bad_rate"][i] = F(1)
                  /\ globals["df"]["lift"][i] = FDiv(F(1), Norm(1931, 9989))
                  /\ globals["df"]["lift"][i] = Norm(9989, 1931)

C1_Witness ==
    /\ script = "lift"
    /\ pc = "done"
    /\ data = EmbeddedData(LiftFields)
    /\ out[Len(out)].total_bad_rate = Norm(1931, 9989)
    /\ \E i \in Bins : globals["df"]["midpoint"][i] = 325 /\ data["population"][i] = 49

(* C3: once the NaN fill has run, every bin whose population is 0 has    *)
(* bin_bad_rate 0 and lift 0, whatever default_count it carries.         *)
C3_ZeroPopulationBinsAreZero ==
    LiftFilled =>
        \A i \in Bins :
            globals["df"]["population"][i] = 0 =>
                /\ globals["df"]["bin_bad_rate"][i] = F(0)
                /\ globals["df"]["lift"][i] = F(0)

(* C8: every reported lift is >= 0, and when the overall bad rate is 0   *)
(* every lift is 0 and no error was raised.                              *)
C8_LiftNonNegative ==
    LiftFilled =>
        /\ err = NoErr
        /\ \A i \in Bins : FLe(F(0), globals["df"]["lift"][i])
        /\ globals["total_bad_rate"] = F(0) =>
              \A i \in Bins : globals["df"]["lift"][i] = F(0)

C8_Witness ==
    /\ script = "lift"
    /\ pc = "done"
    /\ Len(data["midpoint"]) >= 2
    /\ globals["total_bad_rate"] = F(0)
    /\ \E i \in Bins : data["population"][i] = 0
    /\ \E i \in Bins : data["population"][i] > 0
    /\ \A i \in Bins : globals["df"]["lift"][i] = F(0)

(* The k bins of the table with the lowest midpoints *)
LowestBins(k) ==
    {i \in Bins : Cardinality({j \in Bins : data["midpoint"][j] < data["midpoint"][i]}) < k}

RECURSIVE SetSum(_, _)
SetSum(col, S) ==
    IF S = {} THEN 0
    ELSE LET i == CHOOSE x \in S : TRUE IN col[i] + SetSum(col, S \ {i})

OverallBadRate ==
    FDiv(F(SetSum(data["default_count"], Bins)), F(SetSum(data["population"], Bins)))

(* The cumulative statistics of df_sorted are those of the bins taken in *)
(* ascending order of midpoint.                                          *)
CumulativeOverSorted ==
    LET s == globals["df_sorted"]
        n == Len(data["midpoint"])
    IN  /\ \A k \in 1..n :
              /\ k < n => s["midpoint"][k] < s["midpoint"][k + 1]
              /\ s["cum_samples"][k] = SetSum(data["population"], LowestBins(k))
              /\ s["cum_bad"][k] = SetSum(data["default_count"], LowestBins(k))
              /\ s["cum_bad_rate"][k] = FDiv(F(s["cum_bad"][k]), F(s["cum_samples"][k]))
              /\ s["cum_lift"][k] = FDiv(s["cum_bad_rate"][k], OverallBadRate)
        /\ s["cum_samples"][n] = globals["total_samples"]
        /\ globals["total_samples"] = SetSum(data["population"], Bins)

-----------------------------------------------------------------------------
(* Properties of ks.py *)

KSComputed == script = "ks" /\ "total_bad" \in DOMAIN globals

KSFound == script = "ks" /\ pc \in {"found", "done"}

InUnit(x) == FLe(F(0), x) /\ FLe(x, F(1))

(* The table satisfies the data model: 0 <= default_count <= population *)
AcceptedTable ==
    /\ EqualLengths
    /\ \A i \in Bins : 0 <= data["default_count"][i]
                          /\ data["default_count"][i] <= data["population"][i]

(* C5: for every accepted table (that holds at least one sample) every   *)
(* cumulative fraction, every separation and the reported maximum lie in *)
(* [0, 1].                                                               *)
C5_FractionsInUnitInterval ==
    (KSComputed /\ AcceptedTable /\ SetSum(data["population"], Bins) > 0) =>
        /\ \A i \in Bins :
              /\ InUnit(globals["df"]["Cum_BadPct"][i])
              /\ InUnit(globals["df"]["Cum_GoodPct"][i])
              /\ InUnit(globals["df"]["KS"][i])
        /\ pc \in {"found", "done"}  => InUnit(globals["max_ks_value"])

(* default_rate strictly decreases as the midpoint increases *)
StrictlyDecreasingRate ==
    /\ EqualLengths
    /\ \A i \in Bins : i + 1 \in Bins =>
          /\ data["midpoint"][i] < data["midpoint"][i + 1]
          /\ FLt(FDiv(F(data["default_count"][i + 1]), F(data["population"][i + 1])),
                 FDiv(F(data["default_count"][i]), F(data["population"][i])))

(* C6 as stated: with strictly decreasing default_rate the selected bin  *)
(* is neither the first nor the last bin (stated for the tables of three *)
(* bins or more, which do have a bin that is neither).                   *)
C6_MaxBinNotOnBoundary ==
    (KSFound /\ StrictlyDecreasingRate /\ Len(data["midpoint"]) >= 3) =>
        /\ globals["max_ks_idx"] # 1
        /\ globals["max_ks_idx"] # Len(data["midpoint"])

(* C6 amended: with at least two bins and strictly decreasing            *)
(* default_rate a bin is selected, and it is never the last bin (it may  *)
(* be the first).                                                        *)
C6_MaxBinNotLast ==
    (script = "ks" /\ StrictlyDecreasingRate /\ Len(data["midpoint"]) >= 2) =>
        /\ pc # "error"
        /\ pc \in {"found", "done"} =>
              /\ globals["max_ks_idx"] \in Bins
              /\ globals["max_ks_idx"] # Len(data["midpoint"])
              /\ FLt(F(0), globals["max_ks_value"])

C6_Witness ==
    /\ KSFound
    /\ pc = "done"
    /\ StrictlyDecreasingRate
    /\ Len(data["midpoint"]) >= 3
    /\ globals["max_ks_idx"] = 1
    /\ \A i \in Bins : i # 1 => FLt(globals["df"]["KS"][i], globals["max_ks_value"])

(* C7: the selected bin has the largest separation, it is the first of   *)
(* the bins that have it, and the reported value, label and midpoint are *)
(* those of that bin.                                                    *)
C7_FirstMaximalBin ==
    KSFound =>
        LET i == globals["max_ks_idx"]
            ks == globals["df"]["KS"]
        IN  /\ i \in Bins
            /\ \A j \in Bins : ~FLt(ks[i], ks[j])
            /\ \A j \in Bins : j < i => FLt(ks[j], ks[i])
            /\ globals["max_ks_value"] = ks[i]
            /\ globals["max_ks_score"] = data["midpoint"][i]
            /\ globals["max_ks_interval"] = data["score_range"][i]
            /\ out[1] = [max_ks_value |-> ks[i],
                         max_ks_interval |-> data["score_range"][i],
                         max_ks_score |-> data["midpoint"][i]]

C7_Witness ==
    /\ KSFound
    /\ pc = "done"
    /\ FLt(F(0), globals["max_ks_value"])
    /\ \E j \in Bins :
          /\ j > globals["max_ks_idx"]
          /\ globals["df"]["KS"][j] = globals["max_ks_value"]

-----------------------------------------------------------------------------
(* Properties of auc.py *)

AUCScored == script = "auc" /\ pc \in {"scored", "done"}

NonDefault(i) == data["population"][i] - data["default_count"][i]

Score(i) == FDiv(data["pd_pct"][i], F(100))

(* Twice the credit of a defaulted sample of bin i against a             *)
(* non-defaulted sample of bin j: 2 for a higher score, 1 for a tie      *)
PairCredit2(i, j) ==
    IF FLt(Score(j), Score(i)) THEN 2 ELSE IF FEq(Score(i), Score(j)) THEN 1 ELSE 0

(* Twice the sum of the credits over the ordered pairs of bins (i, j) *)
RankSum2 ==
    Sum([i \in Bins |->
            IF data["default_count"][i] = 0 THEN 0
            ELSE data["default_count"][i]
                    * Sum([j \in Bins |-> NonDefault(j) * PairCredit2(i, j)])])

(* The AUC by the rank formula over the bin counts *)
RankAUC ==
    FDiv(FDiv(F(RankSum2), F(2)),
         F(Sum(data["default_count"]) * (Sum(data["population"]) - Sum(data["default_count"]))))

BothClasses ==
    /\ EqualLengths
    /\ \E i \in Bins : data["default_count"][i] > 0
    /\ \E i \in Bins : NonDefault(i) > 0

(* C4: for every table with a defaulted and a non-defaulted sample the   *)
(* AUC over the expanded samples, unweighted and with unit weights, is   *)
(* computed and equals the AUC of the rank formula over the bin counts.  *)
C4_ExpandedAucEqualsRankAuc ==
    /\ (AUCScored /\ BothClasses) =>
          /\ globals["auc_without_weight"] = RankAUC
          /\ globals["auc_with_weight"] = globals["auc_without_weight"]
    /\ (script = "auc" /\ BothClasses) => pc # "error"

C4_Witness ==
    /\ AUCScored
    /\ BothClasses
    /\ pc = "done"
    /\ Len(data["midpoint"]) = 3
    /\ \E i, j \in Bins :
          /\ i # j
          /\ FEq(Score(i), Score(j))
          /\ data["default_count"][i] > 0
          /\ NonDefault(j) > 0
    /\ \E i, j \in Bins : FLt(Score(i), Score(j)) /\ data["default_count"][i] > 0
                             /\ NonDefault(j) > 0
    /\ FLt(F(0), out[1].auc_with_weight)
    /\ FLt(out[1].auc_with_weight, F(1))
    /\ out[1].auc_with_weight # Norm(1, 2)

(* Number of rows the expansion loop has visited *)
RowsDone == NextRow(globals) - 1

Count(s, v) == Sum([k \in 1..Len(s) |-> IF s[k] = v THEN 1 ELSE 0])

(* total_bad as ks.py computes it over the same table *)
KSTotalBad == KSMetrics("df" :> data)["total_bad"]

-----------------------------------------------------------------------------
(* The three loaders side by side *)

FieldsOf(sc) == IF sc = "ks" THEN KSFields ELSE LiftFields

InitLoad ==
    /\ script \in {"lift", "ks", "auc"}
    /\ pc = "start"
    /\ \/ MismatchedTable(FieldsOf(script), data)
       \/ ValidTable(FieldsOf(script), data)
    /\ globals = NoGlobals
    /\ err = NoErr
    /\ out = <<>>

NextLoad == NextLift \/ NextKS \/ NextAUC

SpecLoad == InitLoad /\ [][NextLoad]_vars

(* Nothing but the field lengths has been computed or printed *)
NoMetricComputed ==
    /\ DOMAIN globals \subseteq {"field_lengths"}
    /\ \A k \in 1..Len(out) : DOMAIN out[k] = {"field_lengths"}

TableBuilt == "df" \in DOMAIN globals \/ "scorecard_data" \in DOMAIN globals

(* C2 as stated: a table whose fields differ in length ends the pipeline *)
(* in an error that names the field lengths, before any metric; a table  *)
(* of equal lengths raises no such error and the pipeline proceeds.      *)
C2_ShapeErrorNamesLengths ==
    pc # "start" =>
        IF EqualLengths
        THEN TableBuilt /\ "lengths" \notin DOMAIN err /\ err # FrameError
        ELSE /\ pc = "error"
             /\ err.type = "ValueError"
             /\ "lengths" \in DOMAIN err
             /\ err.lengths = [f \in DOMAIN data |-> Len(data[f])]
             /\ NoMetricComputed

(* C2 amended: a table whose fields differ in length ends every pipeline *)
(* in a ValueError before any metric; lift.py raises it itself and names *)
(* the field lengths, ks.py and auc.py get it from the DataFrame         *)
(* constructor, whose message does not name them.  A table of equal      *)
(* lengths raises no such error and the pipeline proceeds.               *)
C2_ShapeErrorStopsPipeline ==
    pc # "start" =>
        IF EqualLengths
        THEN TableBuilt /\ "lengths" \notin DOMAIN err /\ err # FrameError
        ELSE /\ pc = "error"
             /\ err.type = "ValueError"
             /\ NoMetricComputed
             /\ IF script = "lift"
                THEN /\ "lengths" \in DOMAIN err
                     /\ err.lengths = [f \in DOMAIN data |-> Len(data[f])]
                ELSE "lengths" \notin DOMAIN err

C2_Witness ==
    /\ script = "lift"
    /\ pc = "error"
    /\ err.type = "ValueError"
    /\ "lengths" \in DOMAIN err
    /\ \E f, h \in DOMAIN data :
          /\ err.lengths[f] + 1 = err.lengths[h]
          /\ \A k \in DOMAIN data \ {f} : err.lengths[k] = err.lengths[h]
    /\ globals = ("field_lengths" :> err.lengths)

=============================================================================
